---------------------------- MODULE Spec2Model ----------------------------
(***************************************************************************)
(* Model of scripts/jira-to-excel.py: get_jira_issues, format_issue_data,  *)
(* export_to_excel and main.                                               *)
(*                                                                         *)
(* Python values are tagged records: None, str, int, list, dict, and a     *)
(* raised exception (with the line of the script that raised it).  A dict  *)
(* is a function from its keys to values; a key that is absent from the    *)
(* JSON object is absent from the function's domain.                       *)
(***************************************************************************)
EXTENDS Integers, Sequences, FiniteSets, TLC

VARIABLES pc,               \* position of the run
          query_name,       \* main: query_name
          jql_query,        \* main: jql_query
          issues_data,      \* main: issues_data / format_issue_data's argument
          formatted_issues, \* main: formatted_issues / export_to_excel's argument
          files,            \* the files written to local storage, in order
          requests_sent,    \* number of HTTP requests sent
          outcome,          \* the terminal message of the run
          waited_at,        \* the blocking call an exception ended, and the exception
          response          \* what the remote API answered to the request

vars == <<pc, query_name, jql_query, issues_data, formatted_issues, files,
          requests_sent, outcome, waited_at, response>>

----------------------------------------------------------------------------
(* Bounds of the model *)

\* at most this many fields of a base issue are replaced by a variant
MaxVaried == 2
\* at most this many issues in a response of the pipeline
MaxIssues == 3
\* at most this many rows handed directly to export_to_excel
MaxRows == 3

----------------------------------------------------------------------------
(* Python values.  An operator that reads an argument more than once binds *)
(* its value first: CHOOSE r \in {e(v) : v \in {arg}} : TRUE is e(arg), with *)
(* arg evaluated once.                                                      *)

PyNone == [t |-> "None"]
PyStr(s) == [t |-> "str", s |-> s]
PyInt(i) == [t |-> "int", i |-> i]
PyList(l) == [t |-> "list", l |-> l]
PyDict(d) == [t |-> "dict", d |-> d]
Raise(kind, line) == [t |-> "raise", kind |-> kind, line |-> line]

EmptyMap == [k \in {} |-> PyNone]
EmptyDict == PyDict(EmptyMap)
EmptyList == PyList(<<>>)

IsRaise(v) == v.t = "raise"

\* bool(v), as used by `if v` / `not v`
Truthy(v) ==
    CASE v.t = "None" -> FALSE
      [] v.t = "str"  -> v.s # ""
      [] v.t = "int"  -> v.i # 0
      [] v.t = "list" -> Len(v.l) > 0
      [] v.t = "dict" -> DOMAIN v.d # {}

\* o.get(k, default), evaluated at `line`; an exception in o propagates
get(o, k, default, line) ==
    CHOOSE r \in
      {IF IsRaise(v) THEN v
       ELSE IF v.t = "dict"
            THEN (IF k \in DOMAIN v.d THEN v.d[k] ELSE default)
            ELSE Raise("AttributeError", line) : v \in {o}} : TRUE

\* o[0], evaluated at `line`
index0(o, line) ==
    CHOOSE r \in
      {IF IsRaise(v) THEN v
       ELSE CASE v.t = "list" -> IF Len(v.l) = 0 THEN Raise("IndexError", line) ELSE v.l[1]
              [] v.t = "str"  -> IF Len(v.s) = 0 THEN Raise("IndexError", line)
                                 ELSE PyStr(SubSeq(v.s, 1, 1))
              [] v.t = "dict" -> Raise("KeyError", line)
              [] OTHER        -> Raise("TypeError", line) : v \in {o}} : TRUE

\* o[:10], evaluated at `line`
slice10(o, line) ==
    CHOOSE r \in
      {IF IsRaise(v) THEN v
       ELSE CASE v.t = "str"  -> PyStr(SubSeq(v.s, 1, IF Len(v.s) < 10 THEN Len(v.s) ELSE 10))
              [] v.t = "list" -> PyList(SubSeq(v.l, 1, IF Len(v.l) < 10 THEN Len(v.l) ELSE 10))
              [] OTHER        -> Raise("TypeError", line) : v \in {o}} : TRUE

\* len(o), evaluated at `line`
len(o, line) ==
    CHOOSE r \in
      {IF IsRaise(v) THEN v
       ELSE CASE v.t = "str"  -> PyInt(Len(v.s))
              [] v.t = "list" -> PyInt(Len(v.l))
              [] v.t = "dict" -> PyInt(Cardinality(DOMAIN v.d))
              [] OTHER        -> Raise("TypeError", line) : v \in {o}} : TRUE

\* the sequence `for x in o` walks through, or the exception it raises at `line`
\* (the keys of a dict are walked in some fixed order)
iterate(o, line) ==
    CHOOSE r \in
      {IF IsRaise(v) THEN v
       ELSE CASE v.t = "list" -> v
              [] v.t = "str"  -> PyList([i \in 1..Len(v.s) |-> PyStr(SubSeq(v.s, i, i))])
              [] v.t = "dict" ->
                   PyList(CHOOSE q \in [1..Cardinality(DOMAIN v.d) -> {PyStr(k) : k \in DOMAIN v.d}] :
                             \A k \in DOMAIN v.d : \E i \in DOMAIN q : q[i] = PyStr(k))
              [] OTHER        -> Raise("TypeError", line) : v \in {o}} : TRUE

\* the first exception of a sequence of values, or PyNone when none raised
FirstRaise(vs) ==
    CHOOSE r \in
      {IF \E i \in DOMAIN q : IsRaise(q[i])
       THEN q[CHOOSE i \in DOMAIN q : IsRaise(q[i]) /\ \A j \in 1..(i-1) : ~IsRaise(q[j])]
       ELSE PyNone : q \in {vs}} : TRUE

RECURSIVE JoinStrings(_, _)
\* sep.join(ss) for a sequence ss of strings
JoinStrings(sep, ss) ==
    IF Len(ss) = 0 THEN ""
    ELSE IF Len(ss) = 1 THEN ss[1].s
    ELSE ss[1].s \o sep \o JoinStrings(sep, Tail(ss))

\* sep.join(items), evaluated at `line`: TypeError unless every item is a str
join(sep, items, line) ==
    CHOOSE r \in
      {IF IsRaise(v) THEN v
       ELSE IF \E i \in DOMAIN v.l : v.l[i].t # "str"
            THEN Raise("TypeError", line)
            ELSE PyStr(JoinStrings(sep, v.l)) : v \in {items}} : TRUE

----------------------------------------------------------------------------
(* format_issue_data *)

Columns == <<"Key", "Summary", "Status", "Assignee", "Reporter", "Priority",
             "Issue Type", "Components", "Labels", "Created", "Updated",
             "Due Date", "Description">>
ColumnSet == {Columns[i] : i \in DOMAIN Columns}

\* lines 62-63
assignee_name(fields) ==
    LET assignee == get(fields, "assignee", PyNone, 62)
    IN  IF IsRaise(assignee) THEN assignee
        ELSE IF Truthy(assignee) THEN get(assignee, "displayName", PyNone, 63)
        ELSE PyStr("Unassigned")

\* reporter_name with the default of the assignee
reporter_name_copied_default(fields) ==
    LET reporter == get(fields, "reporter", PyNone, 66)
    IN  IF IsRaise(reporter) THEN reporter
        ELSE IF Truthy(reporter) THEN get(reporter, "displayName", PyNone, 67)
        ELSE PyStr("Unassigned")

\* lines 66-67
reporter_name(fields) ==
    LET reporter == get(fields, "reporter", PyNone, 66)
    IN  IF IsRaise(reporter) THEN reporter
        ELSE IF Truthy(reporter) THEN get(reporter, "displayName", PyNone, 67)
        ELSE PyStr("Unknown")

\* lines 70-71
status_name(fields) ==
    get(get(fields, "status", EmptyDict, 70), "name", PyStr("Unknown"), 71)

\* lines 74-75
priority_name(fields) ==
    get(get(fields, "priority", EmptyDict, 74), "name", PyStr("Unknown"), 75)

\* lines 78-79
issuetype_name(fields) ==
    get(get(fields, "issuetype", EmptyDict, 78), "name", PyStr("Unknown"), 79)

\* line 83: [comp.get('name') for comp in components]
components_list(components) ==
    CHOOSE r \in
      {IF IsRaise(it) THEN it
       ELSE LET names == [i \in DOMAIN it.l |-> get(it.l[i], "name", PyNone, 83)]
            IN  IF IsRaise(FirstRaise(names)) THEN FirstRaise(names) ELSE PyList(names) :
       it \in {iterate(components, 83)}} : TRUE

\* lines 82-84
components_str(fields) ==
    CHOOSE r \in
      {IF IsRaise(cl) THEN cl
       ELSE IF Truthy(cl) THEN join(", ", cl, 84) ELSE PyStr("None") :
       cl \in {components_list(get(fields, "components", EmptyList, 82))}} : TRUE

\* lines 87-88
labels_str(fields) ==
    LET labels == get(fields, "labels", EmptyList, 87)
    IN  IF IsRaise(labels) THEN labels
        ELSE IF Truthy(labels) THEN join(", ", iterate(labels, 88), 88) ELSE PyStr("None")

\* line 91
created_date(fields) ==
    LET c == get(fields, "created", PyNone, 91)
    IN  IF IsRaise(c) THEN c
        ELSE IF Truthy(c) THEN slice10(get(fields, "created", PyStr(""), 91), 91)
        ELSE PyStr("")

\* line 92
updated_date(fields) ==
    LET c == get(fields, "updated", PyNone, 92)
    IN  IF IsRaise(c) THEN c
        ELSE IF Truthy(c) THEN slice10(get(fields, "updated", PyStr(""), 92), 92)
        ELSE PyStr("")

\* line 93
due_date(fields) ==
    LET c == get(fields, "duedate", PyNone, 93)
    IN  IF IsRaise(c) THEN c
        ELSE IF Truthy(c) THEN get(fields, "duedate", PyStr(""), 93)
        ELSE PyStr("")

\* line 108
description_text(fields) ==
    LET c == get(fields, "description", PyNone, 108)
    IN  IF IsRaise(c) THEN c
        ELSE IF Truthy(c)
        THEN get(index0(get(index0(get(get(fields, "description", EmptyDict, 108),
                                       "content", PyList(<<EmptyDict>>), 108), 108),
                            "content", PyList(<<EmptyDict>>), 108), 108),
                 "text", PyStr(""), 108)
        ELSE PyStr("")

\* lines 59-108: the values the loop body computes for one issue, in the
\* order it evaluates them
issue_values(issue) ==
    CHOOSE r \in
      {<<fields,
         assignee_name(fields), reporter_name(fields), status_name(fields),
         priority_name(fields), issuetype_name(fields), components_str(fields),
         labels_str(fields), created_date(fields), updated_date(fields),
         due_date(fields),
         get(issue, "key", PyStr(""), 96),
         get(fields, "summary", PyStr(""), 97),
         description_text(fields)>> : fields \in {get(issue, "fields", EmptyDict, 59)}} : TRUE

\* lines 95-109
issue_dict(ev) ==
    PyDict([c \in ColumnSet |->
              CASE c = "Key"         -> ev[12]
                [] c = "Summary"     -> ev[13]
                [] c = "Status"      -> ev[4]
                [] c = "Assignee"    -> ev[2]
                [] c = "Reporter"    -> ev[3]
                [] c = "Priority"    -> ev[5]
                [] c = "Issue Type"  -> ev[6]
                [] c = "Components"  -> ev[7]
                [] c = "Labels"      -> ev[8]
                [] c = "Created"     -> ev[9]
                [] c = "Updated"     -> ev[10]
                [] c = "Due Date"    -> ev[11]
                [] c = "Description" -> ev[14]])

\* the body of the loop, lines 59-111: the row of one issue, or the first
\* exception raised
format_issue(issue) ==
    CHOOSE r \in
      {IF IsRaise(FirstRaise(ev)) THEN FirstRaise(ev) ELSE issue_dict(ev) :
       ev \in {issue_values(issue)}} : TRUE

\* format_rows with a loop that stops before the last issue
format_rows_skips_last(it) ==
    CHOOSE r \in
      {IF IsRaise(FirstRaise(rows)) THEN FirstRaise(rows) ELSE PyList(rows) :
       rows \in {[i \in 1..(Len(it.l) - 1) |-> format_issue(it.l[i])]}} : TRUE

\* the rows appended by the loop over the issues, or the first exception raised
format_rows(it) ==
    CHOOSE r \in
      {IF IsRaise(FirstRaise(rows)) THEN FirstRaise(rows) ELSE PyList(rows) :
       rows \in {[i \in DOMAIN it.l |-> format_issue(it.l[i])]}} : TRUE

\* lines 52-113: the list of rows, or the exception that left the function
format_issue_data(data) ==
    CHOOSE r \in
      {IF IsRaise(it) THEN it ELSE format_rows(it) :
       it \in {iterate(get(data, "issues", EmptyList, 58), 58)}} : TRUE

----------------------------------------------------------------------------
(* export_to_excel *)

\* line 19
PROJECT_KEY == "YOUR_PROJECT"

\* the instants datetime.now() can return, in time order
Instants == << [Y |-> "2025", m |-> "09", d |-> "20", H |-> "17", M |-> "10", S |-> "38"],
               [Y |-> "2025", m |-> "09", d |-> "20", H |-> "17", M |-> "10", S |-> "39"] >>

\* strftime("%Y%m%d_%H%M%S"), lines 120 and 229
strftime_compact(i) == i.Y \o i.m \o i.d \o "_" \o i.H \o i.M \o i.S

\* strftime("%Y-%m-%d %H:%M:%S"), line 155
strftime_long(i) == i.Y \o "-" \o i.m \o "-" \o i.d \o " " \o i.H \o ":" \o i.M \o ":" \o i.S

\* lines 119-121: the file name used when none is given
default_filename(filename, now) ==
    IF ~Truthy(filename) THEN PyStr("jira_export_" \o strftime_compact(now) \o ".xlsx")
    ELSE filename

\* line 124: the columns of pd.DataFrame(issues_list) are the keys of the rows,
\* in their order of appearance
df_columns(issues_list) ==
    SelectSeq(Columns, LAMBDA c : \E i \in DOMAIN issues_list : c \in DOMAIN issues_list[i].d)

\* line 129: what df.to_excel writes in a cell (a missing value is written as '')
cell_value(v) ==
    CASE v.t = "str"  -> v.s
      [] v.t = "None" -> ""

\* line 129: the data sheet, a header row and one row per row of the frame
data_sheet(issues_list) ==
    LET cols == df_columns(issues_list)
    IN  [header |-> cols,
         rows   |-> IF Len(cols) = 0 THEN <<>>
                    ELSE [i \in DOMAIN issues_list |->
                            [j \in DOMAIN cols |-> cell_value(issues_list[i].d[cols[j]])]]]

\* the cells of column j of the sheet, header first (worksheet.columns, line 136)
column_cells(sheet, j) ==
    <<sheet.header[j]>> \o [i \in DOMAIN sheet.rows |-> sheet.rows[i][j]]

RECURSIVE max_length_loop(_, _)
\* lines 137-145: the running maximum over the cells of a column
max_length_loop(cells, max_length) ==
    IF Len(cells) = 0 THEN max_length
    ELSE max_length_loop(Tail(cells),
                         IF Len(Head(cells)) > max_length THEN Len(Head(cells)) ELSE max_length)

\* adjusted_width without the cap
adjusted_width_uncapped(max_length) ==
    max_length + 2

\* line 147
adjusted_width(max_length) ==
    IF max_length + 2 < 50 THEN max_length + 2 ELSE 50

\* lines 136-148: the width of every column of the data sheet
column_widths(sheet) ==
    [j \in DOMAIN sheet.header |-> adjusted_width(max_length_loop(column_cells(sheet, j), 0))]

\* unique_assignees without the set
unique_assignees_counts_all(issues_list) ==
    Len(issues_list)

\* line 157
unique_assignees(issues_list) ==
    Cardinality({issues_list[i].d["Assignee"] : i \in DOMAIN issues_list})

\* line 158
unique_statuses(issues_list) ==
    Cardinality({issues_list[i].d["Status"] : i \in DOMAIN issues_list})

\* lines 151-160
summary_data(issues_list, now) ==
    << <<"Total Issues", PyInt(Len(issues_list))>>,
       <<"Export Date", PyStr(strftime_long(now))>>,
       <<"Project", PyStr(PROJECT_KEY)>>,
       <<"Unique Assignees", PyInt(unique_assignees(issues_list))>>,
       <<"Unique Statuses", PyInt(unique_statuses(issues_list))>> >>

\* lines 127-163: the workbook written under the name `name`
write_workbook(issues_list, sheet, name, now) ==
    [name    |-> name,
     data    |-> sheet,
     widths  |-> column_widths(sheet),
     summary |-> summary_data(issues_list, now)]

\* lines 115-166: the file written; its name is the value returned
export_to_excel(issues_list, filename, now1, now2) ==
    CHOOSE r \in
      {write_workbook(rows, sheet, default_filename(filename, now1).s, now2) :
       rows \in {issues_list}, sheet \in {data_sheet(issues_list)}} : TRUE

----------------------------------------------------------------------------
(* The raw issues the search endpoint can return *)

\* marks a key that the JSON object does not have
Missing == [t |-> "missing"]

Named(n) == PyDict([name |-> PyStr(n)])
Person(n) == PyDict([displayName |-> PyStr(n)])
Text(s) == PyDict([type |-> PyStr("text"), text |-> PyStr(s)])
Para(content) == PyDict([type |-> PyStr("paragraph"), content |-> PyList(content)])
Doc(content) == PyDict([type |-> PyStr("doc"), content |-> PyList(content)])

FieldKeys == {"summary", "status", "assignee", "reporter", "priority", "issuetype",
              "components", "labels", "created", "updated", "duedate", "description"}
IssueKeys == FieldKeys \cup {"key"}

\* the shapes each requested field (line 36-41) takes in a response
FieldVariants(k) ==
    CASE k = "key"         -> {Missing, PyNone, PyStr("P-1"), PyStr("P-2")}
      [] k = "summary"     -> {Missing, PyNone, PyStr("Fix bug")}
      [] k = "status"      -> {Missing, PyNone, EmptyDict, Named("Open"), Named("Done")}
      [] k = "assignee"    -> {Missing, PyNone, EmptyDict, Person("Alice"), Person("Bob")}
      [] k = "reporter"    -> {Missing, PyNone, EmptyDict, Person("Alice")}
      [] k = "priority"    -> {Missing, PyNone, EmptyDict, Named("High")}
      [] k = "issuetype"   -> {Missing, PyNone, EmptyDict, Named("Bug")}
      [] k = "components"  -> {Missing, PyNone, EmptyList, PyList(<<Named("API")>>),
                               PyList(<<Named("API"), Named("UI")>>), PyList(<<EmptyDict>>)}
      [] k = "labels"      -> {Missing, PyNone, EmptyList, PyList(<<PyStr("backend")>>),
                               PyList(<<PyStr("backend"), PyStr("urgent")>>)}
      [] k = "created"     -> {Missing, PyNone, PyStr(""), PyStr("2024"),
                               PyStr("2024-01-05T10:00:00Z")}
      [] k = "updated"     -> {Missing, PyNone, PyStr("2024-02-11T08:30:00.000+0000")}
      [] k = "duedate"     -> {Missing, PyNone, PyStr("2024-03-01")}
      [] k = "description" -> {Missing, PyNone, EmptyDict, PyStr("plain text"),
                               PyDict([type |-> PyStr("doc")]),
                               Doc(<<>>),
                               Doc(<<EmptyDict>>),
                               Doc(<<Para(<<>>)>>),
                               Doc(<<Para(<<PyDict([type |-> PyStr("hardBreak")])>>)>>),
                               Doc(<<Para(<<Text("Hello")>>)>>),
                               Doc(<<Para(<<Text("Hello"), Text(" world")>>),
                                     Para(<<Text("More")>>)>>)}

\* an issue with every requested field present and well formed
BaseFull ==
    [k \in IssueKeys |->
       CASE k = "key"         -> PyStr("P-1")
         [] k = "summary"     -> PyStr("Fix bug")
         [] k = "status"      -> Named("Open")
         [] k = "assignee"    -> Person("Bob")
         [] k = "reporter"    -> Person("Alice")
         [] k = "priority"    -> Named("High")
         [] k = "issuetype"   -> Named("Bug")
         [] k = "components"  -> PyList(<<Named("API")>>)
         [] k = "labels"      -> PyList(<<PyStr("backend")>>)
         [] k = "created"     -> PyStr("2024-01-05T10:00:00Z")
         [] k = "updated"     -> PyStr("2024-02-11T08:30:00.000+0000")
         [] k = "duedate"     -> PyStr("2024-03-01")
         [] k = "description" -> Doc(<<Para(<<Text("Hello")>>)>>)]

\* an issue with nothing but its key
BaseBare == [k \in IssueKeys |-> IF k = "key" THEN PyStr("P-2") ELSE Missing]

\* the JSON object of an issue, from the shape chosen for each of its keys
Issue(shape) ==
    LET present == {k \in FieldKeys : shape[k] # Missing}
        fields  == PyDict([k \in present |-> shape[k]])
    IN  IF shape["key"] = Missing
        THEN PyDict([k \in {"fields"} |-> fields])
        ELSE PyDict([k \in {"key", "fields"} |-> IF k = "key" THEN shape["key"] ELSE fields])

RECURSIVE Overrides(_)
\* every choice of a variant for each key of S
Overrides(S) ==
    IF S = {} THEN {EmptyMap}
    ELSE LET k == CHOOSE x \in S : TRUE
         IN  {[j \in DOMAIN r \cup {k} |-> IF j = k THEN v ELSE r[j]] :
                 v \in FieldVariants(k), r \in Overrides(S \ {k})}

\* the shapes that differ from a base in at most MaxVaried keys
Shapes ==
    {[k \in IssueKeys |-> IF k \in DOMAIN ov THEN ov[k] ELSE base[k]] :
        ov \in UNION {Overrides(S) : S \in {T \in SUBSET IssueKeys : Cardinality(T) <= MaxVaried}},
        base \in {BaseFull, BaseBare}}

\* the issue of section 8 of the specification
SpecExample ==
    Issue([BaseBare EXCEPT !["key"] = PyStr("P-1"), !["summary"] = PyStr("Fix bug"),
                           !["status"] = Named("Open"), !["assignee"] = PyNone,
                           !["reporter"] = Person("Alice"),
                           !["created"] = PyStr("2024-01-05T10:00:00Z"),
                           !["labels"] = EmptyList,
                           !["components"] = PyList(<<Named("API")>>)])

TestIssues ==
    {Issue(sh) : sh \in Shapes}
    \cup {SpecExample,
          PyDict([key |-> PyStr("P-3")]),
          PyDict([key |-> PyStr("P-3"), fields |-> PyNone]),
          EmptyDict}

\* the issues the pipeline is run on
PipelineIssues ==
    {Issue(BaseFull), SpecExample,
     Issue([BaseFull EXCEPT !["key"] = PyStr("P-2"), !["assignee"] = Person("Alice")]),
     Issue([BaseFull EXCEPT !["key"] = PyStr("P-3"), !["status"] = PyNone]),
     Issue([BaseFull EXCEPT !["key"] = PyStr("P-4"), !["description"] = Doc(<<>>)]),
     Issue([BaseFull EXCEPT !["key"] = PyStr("P-5"), !["assignee"] = EmptyDict])}

RECURSIVE SeqsUpTo(_, _)
\* the sequences over S of length at most n
SeqsUpTo(S, n) ==
    IF n = 0 THEN {<<>>}
    ELSE LET shorter == SeqsUpTo(S, n - 1)
         IN  shorter \cup {Append(q, x) : q \in {r \in shorter : Len(r) = n - 1}, x \in S}

\* the JSON bodies of the responses format_issue_data is applied to
FormatInputs ==
    {PyDict([issues |-> PyList(<<i>>)]) : i \in TestIssues}
    \cup {PyDict([total |-> PyInt(Len(q)), issues |-> PyList(q)]) : q \in SeqsUpTo(PipelineIssues, 2)}
    \cup {PyDict([total |-> PyInt(0)]), PyDict([issues |-> PyNone])}

----------------------------------------------------------------------------
(* get_jira_issues *)

NotWaiting == [at |-> "", kind |-> ""]
NoResponse == [kind |-> "none", status |-> 0, body |-> PyNone]

\* the subclasses of requests.exceptions.RequestException that lines 45-46 raise
RequestException == {"ConnectionError", "Timeout", "HTTPError"}

\* the JSON bodies of a 2xx response
Bodies ==
    {EmptyDict,
     PyDict([issues |-> EmptyList]),
     PyDict([total |-> PyInt(0)]),
     PyDict([total |-> PyInt(0), issues |-> EmptyList]),
     PyDict([startAt |-> PyInt(0), maxResults |-> PyInt(1000), total |-> PyInt(0),
             issues |-> EmptyList]),
     PyDict([total |-> PyInt(0), issues |-> PyNone])}
    \cup {PyDict([total |-> PyInt(Len(q)), issues |-> PyList(q)]) :
            q \in SeqsUpTo(PipelineIssues, MaxIssues) \ {<<>>}}

\* what can happen to the request of line 45
Responses ==
    {[kind |-> "ConnectionError", status |-> 0, body |-> PyNone],
     [kind |-> "Timeout", status |-> 0, body |-> PyNone]}
    \cup {[kind |-> "response", status |-> st, body |-> PyNone] : st \in {401, 404, 500}}
    \cup {[kind |-> "response", status |-> 200, body |-> b] : b \in Bodies}

\* lines 45-46: the exception requests.post or raise_for_status raises, if any
request_exception(resp) ==
    IF resp.kind # "response" THEN resp.kind
    ELSE IF resp.status >= 400 THEN "HTTPError"
    ELSE "none"

\* get_jira_issues with a handler for connection errors only
get_jira_issues_catches_less(resp) ==
    LET e == request_exception(resp)
    IN  IF e = "none" THEN resp.body
        ELSE IF e \in {"ConnectionError", "Timeout"} THEN PyNone
        ELSE Raise(e, 46)

\* lines 44-50
get_jira_issues(resp) ==
    LET e == request_exception(resp)
    IN  IF e = "none" THEN resp.body
        ELSE IF e \in RequestException THEN PyNone
        ELSE Raise(e, 45)

----------------------------------------------------------------------------
(* main *)

\* lines 179-184
jql_queries ==
    << <<"All Open Issues", "project = " \o PROJECT_KEY \o " AND status != Done">>,
       <<"My Issues", "project = " \o PROJECT_KEY \o " AND assignee = currentUser()">>,
       <<"Recent Issues", "project = " \o PROJECT_KEY \o " AND created >= -30d">>,
       <<"High Priority", "project = " \o PROJECT_KEY \o " AND priority in (Highest, High)">> >>

RECURSIVE strip(_)
\* str.strip() for blanks
strip(s) ==
    IF Len(s) = 0 THEN s
    ELSE IF SubSeq(s, 1, 1) = " " THEN strip(SubSeq(s, 2, Len(s)))
    ELSE IF SubSeq(s, Len(s), Len(s)) = " " THEN strip(SubSeq(s, 1, Len(s) - 1))
    ELSE s

UpperCase == "ABCDEFGHIJKLMNOPQRSTUVWXYZ"
LowerCase == "abcdefghijklmnopqrstuvwxyz"

RECURSIVE slug(_)
\* line 230: s.lower().replace(' ', '_')
slug(s) ==
    IF Len(s) = 0 THEN s
    ELSE LET c == SubSeq(s, 1, 1)
             l == IF \E i \in 1..26 : SubSeq(UpperCase, i, i) = c
                  THEN LET i == CHOOSE i \in 1..26 : SubSeq(UpperCase, i, i) = c
                       IN  SubSeq(LowerCase, i, i)
                  ELSE c
         IN  (IF l = " " THEN "_" ELSE l) \o slug(SubSeq(s, 2, Len(s)))

\* lines 196-205: the query chosen by the answer to the menu; for '5' the query
\* is asked for next
select_option(choice) ==
    IF choice \in {"1", "2", "3", "4"}
    THEN LET i == CHOOSE i \in 1..4 : choice = SubSeq("1234", i, i)
         IN  [query_name |-> jql_queries[i][1], jql_query |-> jql_queries[i][2], pc |-> "fetch"]
    ELSE IF choice = "5"
    THEN [query_name |-> "", jql_query |-> "", pc |-> "custom"]
    ELSE [query_name |-> "All Open Issues", jql_query |-> jql_queries[1][2], pc |-> "fetch"]

\* main_except without the handler of KeyboardInterrupt
main_except_one_handler(kind) ==
    "error"

\* lines 238-241: the message of the handler that catches an exception of main
main_except(kind) ==
    IF kind = "KeyboardInterrupt" THEN "cancelled" ELSE "error"

\* lines 226-236: main from the call of format_issue_data on
main_export(formatted_value, qname, now1, now2) ==
    CHOOSE r \in
      {IF IsRaise(formatted)
       THEN [outcome |-> main_except(formatted.kind), formatted |-> PyNone, written |-> <<>>]
       ELSE [outcome   |-> "completed",
             formatted |-> formatted,
             written   |-> <<export_to_excel(formatted.l,
                                             PyStr("jira_export_" \o slug(qname) \o "_"
                                                   \o strftime_compact(now1) \o ".xlsx"),
                                             now1, now2)>>] :
       formatted \in {formatted_value}} : TRUE

\* lines 212-236: main from the return of get_jira_issues on
main_after_fetch(data, qname, now1, now2) ==
    LET stop(msg) == [outcome |-> msg, formatted |-> PyNone, written |-> <<>>]
    IN  IF IsRaise(data) THEN stop(main_except(data.kind))
        ELSE IF ~Truthy(data) THEN stop("failed_to_fetch")
        ELSE LET total    == get(data, "total", PyInt(0), 216)
                 returned == len(get(data, "issues", EmptyList, 217), 217)
             IN  IF IsRaise(total) THEN stop(main_except(total.kind))
                 ELSE IF IsRaise(returned) THEN stop(main_except(returned.kind))
                 ELSE IF returned.i = 0 THEN stop("no_issues")
                 ELSE main_export(format_issue_data(data), qname, now1, now2)

\* what the operator types at the two prompts
MenuAnswers == {"1", "2", "3", "4", "5", " 2 ", "9", ""}
CustomAnswers == {"project = DEMO", " assignee = currentUser() ", ""}

Init ==
    /\ pc = "menu"
    /\ query_name = ""
    /\ jql_query = ""
    /\ issues_data = PyNone
    /\ formatted_issues = PyNone
    /\ files = <<>>
    /\ requests_sent = 0
    /\ outcome = ""
    /\ waited_at = NotWaiting
    /\ response = NoResponse

\* line 194 and lines 196-205: the operator answers the menu
SelectOption ==
    /\ pc = "menu"
    /\ \E answer \in MenuAnswers :
         LET sel == select_option(strip(answer))
         IN  /\ query_name' = sel.query_name
             /\ jql_query' = sel.jql_query
             /\ pc' = sel.pc
    /\ UNCHANGED <<issues_data, formatted_issues, files, requests_sent, outcome,
                   waited_at, response>>

\* lines 200-201: the operator types the custom query
EnterCustomQuery ==
    /\ pc = "custom"
    /\ \E answer \in CustomAnswers :
         /\ jql_query' = strip(answer)
         /\ query_name' = "Custom Query"
    /\ pc' = "fetch"
    /\ UNCHANGED <<issues_data, formatted_issues, files, requests_sent, outcome,
                   waited_at, response>>

\* input() raises: KeyboardInterrupt when the operator interrupts the process,
\* EOFError when standard input is closed
InputRaises ==
    /\ pc \in {"menu", "custom"}
    /\ \E kind \in {"KeyboardInterrupt", "EOFError"} :
         /\ outcome' = main_except(kind)
         /\ waited_at' = [at |-> pc, kind |-> kind]
    /\ pc' = "done"
    /\ UNCHANGED <<query_name, jql_query, issues_data, formatted_issues, files,
                   requests_sent, response>>

\* line 210: the single request and its outcome
Fetch ==
    /\ pc = "fetch"
    /\ \E resp \in Responses :
         /\ response' = resp
         /\ issues_data' = get_jira_issues(resp)
    /\ requests_sent' = requests_sent + 1
    /\ pc' = "fetched"
    /\ UNCHANGED <<query_name, jql_query, formatted_issues, files, outcome, waited_at>>

\* the operator interrupts the process while the request is in flight
InterruptFetch ==
    /\ pc = "fetch"
    /\ requests_sent' = requests_sent + 1
    /\ outcome' = main_except("KeyboardInterrupt")
    /\ waited_at' = [at |-> "fetch", kind |-> "KeyboardInterrupt"]
    /\ pc' = "done"
    /\ UNCHANGED <<query_name, jql_query, issues_data, formatted_issues, files, response>>

\* lines 212-236
Process ==
    /\ pc = "fetched"
    /\ \E n1 \in DOMAIN Instants : \E n2 \in n1..Len(Instants) :
         LET r == main_after_fetch(issues_data, query_name, Instants[n1], Instants[n2])
         IN  /\ formatted_issues' = r.formatted
             /\ files' = files \o r.written
             /\ outcome' = r.outcome
    /\ pc' = "done"
    /\ UNCHANGED <<query_name, jql_query, issues_data, requests_sent, waited_at, response>>

Next ==
    \/ SelectOption
    \/ EnterCustomQuery
    \/ InputRaises
    \/ Fetch
    \/ InterruptFetch
    \/ Process

Spec == Init /\ [][Next]_vars

----------------------------------------------------------------------------
(* format_issue_data applied to a response *)

InitFormat ==
    /\ pc = "call_format"
    /\ issues_data \in FormatInputs
    /\ query_name = ""
    /\ jql_query = ""
    /\ formatted_issues = PyNone
    /\ files = <<>>
    /\ requests_sent = 0
    /\ outcome = ""
    /\ waited_at = NotWaiting
    /\ response = NoResponse

CallFormat ==
    /\ pc = "call_format"
    /\ formatted_issues' = format_issue_data(issues_data)
    /\ pc' = "format_returned"
    /\ UNCHANGED <<query_name, jql_query, issues_data, files, requests_sent, outcome,
                   waited_at, response>>

SpecFormat == InitFormat /\ [][CallFormat]_vars

----------------------------------------------------------------------------
(* export_to_excel applied to a list of rows *)

RECURSIVE Repeat(_, _)
\* the string of n copies of c
Repeat(c, n) ==
    IF n = 0 THEN ""
    ELSE IF n % 2 = 0 THEN Repeat(c, n \div 2) \o Repeat(c, n \div 2)
    ELSE c \o Repeat(c, n - 1)

Row(key, assignee, status, description) ==
    PyDict([c \in ColumnSet |->
              CASE c = "Key"         -> PyStr(key)
                [] c = "Summary"     -> PyStr("Fix bug")
                [] c = "Status"      -> PyStr(status)
                [] c = "Assignee"    -> assignee
                [] c = "Reporter"    -> PyStr("Alice")
                [] c = "Priority"    -> PyStr("Unknown")
                [] c = "Issue Type"  -> PyStr("Bug")
                [] c = "Components"  -> PyStr("API, UI")
                [] c = "Labels"      -> PyStr("None")
                [] c = "Created"     -> PyStr("2024-01-05")
                [] c = "Updated"     -> PyStr("")
                [] c = "Due Date"    -> PyStr("")
                [] c = "Description" -> PyStr(description)])

\* rows as format_issue_data makes them
ExportRows ==
    {Row("P-1", PyStr("Alice"), "Open", ""),
     Row("P-2", PyStr("Alice"), "Open", Repeat("x", 47)),
     Row("P-3", PyStr("Alice"), "Done", Repeat("x", 48)),
     Row("P-4", PyStr("Bob"), "Open", Repeat("x", 49)),
     Row("P-5", PyStr("Unassigned"), "In Progress", Repeat("x", 201)),
     Row("P-6", PyNone, "Open", "Hello")}

InitExport ==
    /\ pc = "call_export"
    /\ formatted_issues \in {PyList(q) : q \in SeqsUpTo(ExportRows, MaxRows)}
    /\ query_name = ""
    /\ jql_query = ""
    /\ issues_data = PyNone
    /\ files = <<>>
    /\ requests_sent = 0
    /\ outcome = ""
    /\ waited_at = NotWaiting
    /\ response = NoResponse

CallExport ==
    /\ pc = "call_export"
    /\ \E filename \in {PyNone, PyStr("out.xlsx")} :
         \E n1 \in DOMAIN Instants : \E n2 \in n1..Len(Instants) :
            files' = Append(files, export_to_excel(formatted_issues.l, filename,
                                                   Instants[n1], Instants[n2]))
    /\ pc' = "export_returned"
    /\ UNCHANGED <<query_name, jql_query, issues_data, formatted_issues, requests_sent,
                   outcome, waited_at, response>>

SpecExport == InitExport /\ [][CallExport]_vars

----------------------------------------------------------------------------
(* Properties *)

\* the issues of the response format_issue_data was applied to
InputIssues ==
    IF issues_data.t = "dict" /\ "issues" \in DOMAIN issues_data.d
       /\ issues_data.d["issues"].t = "list"
    THEN issues_data.d["issues"].l
    ELSE <<>>

\* the fields object of an issue; the empty object when the issue has none
FieldsOf(issue) ==
    IF issue.t = "dict" /\ "fields" \in DOMAIN issue.d THEN issue.d["fields"] ELSE EmptyDict

Absent(fields, k) == k \notin DOMAIN fields.d

\* C1: every field of every row format_issue_data returns is a string
C1_EveryFieldIsAString ==
    (pc = "format_returned" /\ formatted_issues.t = "list") =>
        \A i \in DOMAIN formatted_issues.l : \A c \in ColumnSet :
            formatted_issues.l[i].d[c].t = "str"

\* the issues of the response body of a successful request
ResponseIssues ==
    IF response.kind = "response" /\ response.status = 200 /\ response.body.t = "dict"
       /\ "issues" \in DOMAIN response.body.d /\ response.body.d["issues"].t = "list"
    THEN response.body.d["issues"].l
    ELSE <<>>

\* C2: when some issue of the result set cannot be normalized, the rows of the
\* other issues are still produced and the export file is still written
C2_RowFailuresContained ==
    (pc = "done" /\ waited_at = NotWaiting
       /\ \E i \in DOMAIN ResponseIssues : ~IsRaise(format_issue(ResponseIssues[i]))) =>
        /\ outcome = "completed"
        /\ Len(files) = 1
        /\ formatted_issues.t = "list"
        /\ \A i \in DOMAIN ResponseIssues :
              ~IsRaise(format_issue(ResponseIssues[i])) =>
                 \E j \in DOMAIN formatted_issues.l :
                    formatted_issues.l[j] = format_issue(ResponseIssues[i])

\* the text the description path leads to, or the empty string when the path
\* does not exist
DescriptionPath(fields) ==
    LET HasList(o, k) == o.t = "dict" /\ k \in DOMAIN o.d /\ o.d[k].t = "list" /\ Len(o.d[k].l) > 0
    IN  IF Absent(fields, "description") THEN PyStr("")
        ELSE IF ~HasList(fields.d["description"], "content") THEN PyStr("")
        ELSE IF ~HasList(fields.d["description"].d["content"].l[1], "content") THEN PyStr("")
        ELSE LET run == fields.d["description"].d["content"].l[1].d["content"].l[1]
             IN  IF run.t = "dict" /\ "text" \in DOMAIN run.d THEN run.d["text"] ELSE PyStr("")

\* C3: no description shape makes format_issue_data raise, and the Description of a
\* row is the text at the end of the description path, or the empty string
C3_DescriptionDegradesToEmpty ==
    pc = "format_returned" =>
        /\ IsRaise(formatted_issues) => formatted_issues.line # 108
        /\ formatted_issues.t = "list" =>
              \A i \in DOMAIN formatted_issues.l :
                 formatted_issues.l[i].d["Description"] = DescriptionPath(FieldsOf(InputIssues[i]))

\* the first ten characters of s
FirstTen(s, r) ==
    /\ Len(r) <= 10
    /\ Len(r) = 10 \/ Len(r) = Len(s)
    /\ \A n \in 1..Len(r) : SubSeq(r, n, n) = SubSeq(s, n, n)

\* whether v is the list of names of the component list comps, joined with ", "
JoinedNames(comps, v) ==
    /\ \A n \in DOMAIN comps : comps[n].t = "dict" /\ "name" \in DOMAIN comps[n].d
    /\ \/ Len(comps) = 1 /\ v = comps[1].d["name"]
       \/ Len(comps) = 2 /\ v = PyStr(comps[1].d["name"].s \o ", " \o comps[2].d["name"].s)

\* whether v is the list of labels, joined with ", "
JoinedLabels(labels, v) ==
    \/ Len(labels) = 1 /\ v = labels[1]
    \/ Len(labels) = 2 /\ v = PyStr(labels[1].s \o ", " \o labels[2].s)

\* the documented value of each of the ten columns of lines 61-93, for the fields
\* object f of an issue and the values val of its columns
DocumentedValues(f, val) ==
    /\ Absent(f, "assignee") => val["Assignee"] = PyStr("Unassigned")
    /\ Absent(f, "reporter") => val["Reporter"] = PyStr("Unknown")
    /\ Absent(f, "status") => val["Status"] = PyStr("Unknown")
    /\ Absent(f, "priority") => val["Priority"] = PyStr("Unknown")
    /\ Absent(f, "issuetype") => val["Issue Type"] = PyStr("Unknown")
    /\ (Absent(f, "components") \/ f.d["components"] = EmptyList) => val["Components"] = PyStr("None")
    /\ (Absent(f, "labels") \/ f.d["labels"] = EmptyList) => val["Labels"] = PyStr("None")
    /\ Absent(f, "created") => val["Created"] = PyStr("")
    /\ Absent(f, "updated") => val["Updated"] = PyStr("")
    /\ Absent(f, "duedate") => val["Due Date"] = PyStr("")
    /\ \A who \in {"Alice", "Bob"} :
          /\ (~Absent(f, "assignee") /\ f.d["assignee"] = Person(who)) => val["Assignee"] = PyStr(who)
          /\ (~Absent(f, "reporter") /\ f.d["reporter"] = Person(who)) => val["Reporter"] = PyStr(who)
    /\ \A n \in {"Open", "Done", "High", "Bug"} :
          /\ (~Absent(f, "status") /\ f.d["status"] = Named(n)) => val["Status"] = PyStr(n)
          /\ (~Absent(f, "priority") /\ f.d["priority"] = Named(n)) => val["Priority"] = PyStr(n)
          /\ (~Absent(f, "issuetype") /\ f.d["issuetype"] = Named(n)) => val["Issue Type"] = PyStr(n)
    /\ (~Absent(f, "components") /\ f.d["components"].t = "list" /\ Len(f.d["components"].l) > 0
          /\ \A n \in DOMAIN f.d["components"].l : f.d["components"].l[n] # EmptyDict)
         => JoinedNames(f.d["components"].l, val["Components"])
    /\ (~Absent(f, "components") /\ f.d["components"] = PyList(<<Named("API")>>))
         => val["Components"] = PyStr("API")
    /\ (~Absent(f, "labels") /\ f.d["labels"].t = "list" /\ Len(f.d["labels"].l) > 0)
         => JoinedLabels(f.d["labels"].l, val["Labels"])
    /\ (~Absent(f, "created") /\ f.d["created"].t = "str")
         => val["Created"].t = "str" /\ FirstTen(f.d["created"].s, val["Created"].s)
    /\ (~Absent(f, "created") /\ f.d["created"] = PyStr("2024-01-05T10:00:00Z"))
         => val["Created"] = PyStr("2024-01-05")
    /\ (~Absent(f, "updated") /\ f.d["updated"].t = "str")
         => val["Updated"].t = "str" /\ FirstTen(f.d["updated"].s, val["Updated"].s)
    /\ (~Absent(f, "duedate") /\ f.d["duedate"].t = "str") => val["Due Date"] = f.d["duedate"]

\* C4: every row format_issue_data returns holds the documented default in each
\* column whose field is absent and the documented value in each column whose
\* field is present and well formed; the values lines 61-93 compute for an issue
\* are these also when no row is returned for it
C4_DocumentedDefaults ==
    /\ (pc = "format_returned" /\ formatted_issues.t = "list") =>
          \A i \in DOMAIN formatted_issues.l :
             DocumentedValues(FieldsOf(InputIssues[i]), formatted_issues.l[i].d)
    \* and lines 61-93 compute these values also for an issue whose row is lost
    \* to an exception raised for another field or another issue
    /\ pc = "format_returned" =>
          \A i \in DOMAIN InputIssues :
             (InputIssues[i].t = "dict" /\ FieldsOf(InputIssues[i]).t = "dict") =>
                DocumentedValues(FieldsOf(InputIssues[i]),
                                 issue_dict(issue_values(InputIssues[i])).d)

\* a row was returned for an issue that has none of the ten fields
C4_Witness ==
    /\ pc = "format_returned"
    /\ formatted_issues.t = "list"
    /\ \E i \in DOMAIN formatted_issues.l :
          /\ \A k \in FieldKeys : Absent(FieldsOf(InputIssues[i]), k)
          /\ formatted_issues.l[i].d["Status"] = PyStr("Unknown")
          /\ formatted_issues.l[i].d["Created"] = PyStr("")

\* C5: a completed run formatted one row per issue of the result set, in the
\* order of the result set, and wrote one data-sheet row per formatted row
C5_NoRowDroppedOrDuplicated ==
    (pc = "done" /\ outcome = "completed") =>
        /\ formatted_issues.t = "list"
        /\ Len(formatted_issues.l) = Len(ResponseIssues)
        /\ \A i \in DOMAIN ResponseIssues :
              /\ formatted_issues.l[i] = format_issue(ResponseIssues[i])
              /\ formatted_issues.l[i].d["Key"] = ResponseIssues[i].d["key"]
        /\ Len(files) = 1
        /\ Len(files[1].data.rows) = Len(ResponseIssues)
        /\ \A i \in DOMAIN ResponseIssues :
              files[1].data.rows[i][1] = ResponseIssues[i].d["key"].s

\* a completed run on three issues, two of them the same issue
C5_Witness ==
    /\ pc = "done"
    /\ outcome = "completed"
    /\ Len(ResponseIssues) = 3
    /\ ResponseIssues[1] = ResponseIssues[3]
    /\ ResponseIssues[1] # ResponseIssues[2]
    /\ Len(files[1].data.rows) = 3

\* the number of distinct values of column c among rows, counted by first occurrence
DistinctCount(rows, c) ==
    Cardinality({i \in DOMAIN rows : \A j \in 1..(i - 1) : rows[j].d[c] # rows[i].d[c]})

\* C6: the summary written by export_to_excel has exactly five metric rows, with
\* the number of rows, the number of distinct assignees and of distinct statuses
C6_SummaryCounts ==
    pc = "export_returned" =>
        LET rows == formatted_issues.l
            summary == files[1].summary
        IN  /\ Len(summary) = 5
            /\ summary[1] = <<"Total Issues", PyInt(Len(rows))>>
            /\ summary[2][1] = "Export Date"
            /\ summary[3] = <<"Project", PyStr(PROJECT_KEY)>>
            /\ summary[4] = <<"Unique Assignees", PyInt(DistinctCount(rows, "Assignee"))>>
            /\ summary[5] = <<"Unique Statuses", PyInt(DistinctCount(rows, "Status"))>>
            /\ rows = <<>> => summary[4][2] = PyInt(0) /\ summary[5][2] = PyInt(0)

\* two rows, both of assignee Alice, were exported with one unique assignee
C6_Witness ==
    /\ pc = "export_returned"
    /\ Len(formatted_issues.l) = 2
    /\ \A i \in 1..2 : formatted_issues.l[i].d["Assignee"] = PyStr("Alice")
    /\ formatted_issues.l[1] # formatted_issues.l[2]
    /\ files[1].summary[4][2] = PyInt(1)

\* whether the successful response carries no issue
NoIssuesReturned ==
    /\ response.kind = "response"
    /\ response.status = 200
    /\ response.body.t = "dict"
    /\ \/ "issues" \notin DOMAIN response.body.d
       \/ response.body.d["issues"] = EmptyList

\* C7: a successful query that returns zero issues ends with the informational
\* message, formats nothing and writes no file
C7_EmptyResultIsInformational ==
    (pc = "done" /\ waited_at = NotWaiting /\ NoIssuesReturned) =>
        /\ outcome = "no_issues"
        /\ formatted_issues = PyNone
        /\ files = <<>>

\* whether the request failed at transport level or with a non-success status
RequestFailed ==
    \/ response.kind \in {"ConnectionError", "Timeout"}
    \/ response.kind = "response" /\ response.status >= 400

\* C8: a failed request makes get_jira_issues return None; the run then ends as
\* failed after that one request, with nothing formatted and no file written
C8_FetchFailureIsTerminal ==
    /\ requests_sent <= 1
    /\ RequestFailed =>
          /\ issues_data = PyNone
          /\ requests_sent = 1
          /\ formatted_issues = PyNone
          /\ files = <<>>
          /\ pc = "done" => outcome = "failed_to_fetch"

\* a run ended as failed after a response of status 500
C8_Witness ==
    /\ pc = "done"
    /\ response.kind = "response"
    /\ response.status = 500
    /\ outcome = "failed_to_fetch"

\* the string lengths of the cells of column j of a written data sheet
CellLengths(sheet, j) ==
    {Len(sheet.header[j])} \cup {Len(sheet.rows[i][j]) : i \in DOMAIN sheet.rows}

\* C9: the width of every column of the data sheet is min(L + 2, 50), L the
\* greatest string length of its cells, the header cell included
C9_WidthIsCappedMaximum ==
    pc = "export_returned" =>
        LET f == files[1]
        IN  /\ DOMAIN f.widths = DOMAIN f.data.header
            /\ \A j \in DOMAIN f.widths :
                  /\ f.widths[j] <= 50
                  /\ \E L \in CellLengths(f.data, j) :
                        /\ \A n \in CellLengths(f.data, j) : n <= L
                        /\ L + 2 <= 50 => f.widths[j] = L + 2
                        /\ L + 2 > 50 => f.widths[j] = 50

\* a sheet was written with a cell of more than 200 characters in a column of
\* width 50, and with a column of width 49
C9_Witness ==
    /\ pc = "export_returned"
    /\ Len(files[1].data.rows) = 2
    /\ \E i \in 1..2 : Len(files[1].data.rows[i][13]) > 200
    /\ files[1].widths[13] = 50
    /\ files[1].widths[1] = 5

\* C10: an interrupt while main waits for the menu choice or the custom query ends
\* the run with the cancellation message, no request sent and no file written
C10_InterruptAtPromptCancels ==
    (waited_at.kind = "KeyboardInterrupt" /\ waited_at.at \in {"menu", "custom"}) =>
        /\ pc = "done"
        /\ outcome = "cancelled"
        /\ requests_sent = 0
        /\ files = <<>>

\* the operator interrupted the prompt for the custom query
C10_Witness ==
    /\ pc = "done"
    /\ waited_at = [at |-> "custom", kind |-> "KeyboardInterrupt"]
    /\ outcome = "cancelled"

=============================================================================
